---- MODULE Spec2Model ----
(***************************************************************************)
(* CNNRegressor (sktime/regression/deep_learning/cnn.py): the adapter that *)
(* holds hyperparameters, builds and compiles a keras model through a      *)
(* CNNNetwork builder and trains it.  Objects live in heaps (models,       *)
(* histories, lists) and are named by their index, so that "the same       *)
(* object" is equality of references and mutation through an alias shows.  *)
(***************************************************************************)
EXTENDS Integers, Sequences, FiniteSets, TLC

VARIABLES adapter, models, histories, lists, globalSeed, call

vars == <<adapter, models, histories, lists, globalSeed, call>>

None == [tag |-> "None"]       \* Python's None
Unset == [tag |-> "Unset"]     \* the attribute does not exist on the object
Ref(kind, k) == [tag |-> "ref", kind |-> kind, id |-> k]  \* heap object k of a kind
Seed(v) == [tag |-> "seed", value |-> v]     \* a value of the framework's global seed
List(items) == [tag |-> "list", items |-> items]      \* a list value
Shape(dims) == [tag |-> "shape", dims |-> dims]       \* a tuple of ints
NoError == "no error"

MaxN == 2               \* instances in X
MaxD == 2               \* dimensions in X
MaxM == 2               \* series length in X
MaxModels == 3          \* models built over a run

Inst == {1, 2}             \* the slots for adapter objects

(* ---------------- inputs ---------------- *)

\* X of shape (n, d, m) with pairwise distinct entries, y of shape (n,)
MkX(n, d, m) == [i \in 1..n |-> [k \in 1..d |-> [t \in 1..m |-> 100 * i + 10 * k + t]]]

MkY(n) == [i \in 1..n |-> 1000 + i]

Shapes == (1..MaxN) \X (1..MaxD) \X (1..MaxM)

EpochChoices == {1, 2}
SeedChoices == {0, 1}
MetricChoices == {None, List(<<>>), List(<<"mae">>)}
UserOptimizer == [tag |-> "optimizer", class |-> "SGD", learning_rate |-> <<1, 10>>]
OptimizerChoices == {None, UserOptimizer}
CallbackKinds == {"none", "empty", "nonempty"}

\* constructor arguments <<n_epochs, callbacks, verbose, metrics, random_state, optimizer>>
Configs == EpochChoices \X CallbackKinds \X BOOLEAN \X MetricChoices \X SeedChoices
               \X OptimizerChoices
\* nothing optional configured
PlainConfig == <<2, "none", FALSE, None, 0, None>>
SeedEpochConfigs == {c \in Configs : c[2] = "none" /\ ~c[3] /\ c[4] = None /\ c[6] = None}
OneShape == <<1, 2, 1>>

\* where a collaborator fails during a call
FailPoints == {"none", "build_network", "compile", "fit"}

ErrorOf(fail) ==
    CASE fail = "build_network" -> "BuilderError"
      [] fail = "compile" -> "CompileError"
      [] fail = "fit" -> "TrainingError"
      [] OTHER -> NoError

(* ---------------- __init__ ---------------- *)

\* the signature of __init__ with its defaults; the varied ones are arguments
Params(ne, cb, vb, mt, rs, op) ==
    [n_epochs |-> ne, batch_size |-> 16, kernel_size |-> 7, avg_pool_size |-> 3,
     n_conv_layers |-> 2, callbacks |-> cb, verbose |-> vb,
     loss |-> "mean_squared_error", metrics |-> mt, random_state |-> rs,
     activation |-> "linear", use_bias |-> TRUE, optimizer |-> op,
     filter_sizes |-> None, padding |-> "auto"]

\* an object on which __init__ has stored nothing
Blank == [hp |-> Unset, network |-> Unset, input_shape |-> Unset,
          model_ |-> Unset, history |-> Unset, optimizer_ |-> Unset]

\* severity="error": raises when the framework is missing
_check_dl_dependencies(installed) ==
    IF installed THEN NoError ELSE "DependencyError"

CNNNetwork(hp) ==
    [kernel_size |-> hp.kernel_size, avg_pool_size |-> hp.avg_pool_size,
     n_conv_layers |-> hp.n_conv_layers, filter_sizes |-> hp.filter_sizes,
     activation |-> hp.activation, padding |-> hp.padding,
     random_state |-> hp.random_state]

\* a bug: the hyperparameters are stored and the builder made before the check
init_checkLast(self, p, installed) ==
    LET stored == [self EXCEPT !.hp = p, !.history = None, !.network = CNNNetwork(p)]
    IN  [self |-> stored, raised |-> _check_dl_dependencies(installed)]

__init__(self, p, installed) ==
    LET err == _check_dl_dependencies(installed)
    IN  IF err # NoError
        THEN [self |-> self, raised |-> err]
        ELSE [self |-> [self EXCEPT !.hp = p, !.history = None,
                                    !.network = CNNNetwork(p)],
              raised |-> NoError]

(* ---------------- build_model ---------------- *)

\* keras.optimizers.Adam(learning_rate=0.01); the rate is the fraction 1/100
Adam == [tag |-> "optimizer", class |-> "Adam", learning_rate |-> <<1, 100>>]

\* a bug: the default is taken whenever the configured list is falsy
ResolveMetrics_truthy(metrics) ==
    IF metrics = None \/ metrics.items = <<>> THEN List(<<"accuracy">>) ELSE metrics

ResolveMetrics(metrics) ==
    IF metrics = None THEN List(<<"accuracy">>) ELSE metrics

ResolveOptimizer(optimizer) ==
    IF optimizer = None THEN Adam ELSE optimizer

\* what one build_model call saw and did
NoBuild == [network_calls |-> 0, compile_calls |-> 0, shape |-> None,
            seed_at_network |-> None, compiled |-> None]

\* the compiled, un-trained keras model
KerasModel(self, input_shape, seed, compiled) ==
    [input_shape |-> input_shape, network |-> self.network, units |-> 1,
     activation |-> self.hp.activation, use_bias |-> self.hp.use_bias,
     built_with_seed |-> seed, compiled |-> compiled, epochs_trained |-> 0]

\* a bug: the global seed is set only after the network has been built
build_model_seedLate(self, seed, input_shape, fail) ==
    LET metrics == ResolveMetrics(self.hp.metrics)
        seen == [NoBuild EXCEPT !.network_calls = 1, !.shape = input_shape,
                                !.seed_at_network = seed]
    IN  IF fail = "build_network"
        THEN [self |-> self, seed |-> seed, raised |-> ErrorOf(fail),
              model |-> None, seen |-> seen]
        ELSE LET seeded == Seed(self.hp.random_state)
                 self2 == [self EXCEPT !.optimizer_ = ResolveOptimizer(self.hp.optimizer)]
                 compiled == [loss |-> self.hp.loss, optimizer |-> self2.optimizer_,
                              metrics |-> metrics]
                 seen2 == [seen EXCEPT !.compile_calls = 1, !.compiled = compiled]
             IN  IF fail = "compile"
                 THEN [self |-> self2, seed |-> seeded, raised |-> ErrorOf(fail),
                       model |-> None, seen |-> seen2]
                 ELSE [self |-> self2, seed |-> seeded, raised |-> NoError,
                       model |-> KerasModel(self2, input_shape, seed, compiled),
                       seen |-> seen2]

\* a bug: the resolved optimizer is written to the hyperparameter
build_model_writesOptimizer(self, seed, input_shape, fail) ==
    LET seeded == Seed(self.hp.random_state)
        metrics == ResolveMetrics(self.hp.metrics)
        seen == [NoBuild EXCEPT !.network_calls = 1, !.shape = input_shape,
                                !.seed_at_network = seeded]
    IN  IF fail = "build_network"
        THEN [self |-> self, seed |-> seeded, raised |-> ErrorOf(fail),
              model |-> None, seen |-> seen]
        ELSE LET self2 == [self EXCEPT !.hp.optimizer = ResolveOptimizer(self.hp.optimizer),
                                       !.optimizer_ = ResolveOptimizer(self.hp.optimizer)]
                 compiled == [loss |-> self.hp.loss, optimizer |-> self2.optimizer_,
                              metrics |-> metrics]
                 seen2 == [seen EXCEPT !.compile_calls = 1, !.compiled = compiled]
             IN  IF fail = "compile"
                 THEN [self |-> self2, seed |-> seeded, raised |-> ErrorOf(fail),
                       model |-> None, seen |-> seen2]
                 ELSE [self |-> self2, seed |-> seeded, raised |-> NoError,
                       model |-> KerasModel(self2, input_shape, seeded, compiled),
                       seen |-> seen2]

\* a bug: a failing network-builder is called a second time and its error wrapped
build_model_retries(self, seed, input_shape, fail) ==
    LET seeded == Seed(self.hp.random_state)
        metrics == ResolveMetrics(self.hp.metrics)
        seen == [NoBuild EXCEPT !.network_calls = 1, !.shape = input_shape,
                                !.seed_at_network = seeded]
    IN  IF fail = "build_network"
        THEN [self |-> self, seed |-> seeded, raised |-> "RuntimeError",
              model |-> None, seen |-> [seen EXCEPT !.network_calls = 2]]
        ELSE LET self2 == [self EXCEPT !.optimizer_ = ResolveOptimizer(self.hp.optimizer)]
                 compiled == [loss |-> self.hp.loss, optimizer |-> self2.optimizer_,
                              metrics |-> metrics]
                 seen2 == [seen EXCEPT !.compile_calls = 1, !.compiled = compiled]
             IN  IF fail = "compile"
                 THEN [self |-> self2, seed |-> seeded, raised |-> ErrorOf(fail),
                       model |-> None, seen |-> seen2]
                 ELSE [self |-> self2, seed |-> seeded, raised |-> NoError,
                       model |-> KerasModel(self2, input_shape, seeded, compiled),
                       seen |-> seen2]

\* build_model on `self` with the framework's global seed `seed`: the object and
\* the global seed as the call leaves them, the error raised, the model returned
build_model(self, seed, input_shape, fail) ==
    LET seeded == Seed(self.hp.random_state)            \* tf.random.set_seed
        metrics == ResolveMetrics(self.hp.metrics)
        seen == [NoBuild EXCEPT !.network_calls = 1, !.shape = input_shape,
                                !.seed_at_network = seeded]
    IN  IF fail = "build_network"                      \* build_network raises
        THEN [self |-> self, seed |-> seeded, raised |-> ErrorOf(fail),
              model |-> None, seen |-> seen]
        ELSE LET self2 == [self EXCEPT !.optimizer_ = ResolveOptimizer(self.hp.optimizer)]
                 compiled == [loss |-> self.hp.loss, optimizer |-> self2.optimizer_,
                              metrics |-> metrics]
                 seen2 == [seen EXCEPT !.compile_calls = 1, !.compiled = compiled]
             IN  IF fail = "compile"                   \* model.compile raises
                 THEN [self |-> self2, seed |-> seeded, raised |-> ErrorOf(fail),
                       model |-> None, seen |-> seen2]
                 ELSE [self |-> self2, seed |-> seeded, raised |-> NoError,
                       model |-> KerasModel(self2, input_shape, seeded, compiled),
                       seen |-> seen2]

(* ---------------- _fit ---------------- *)

\* X.transpose(0, 2, 1)
Transpose_none(X) == X

Transpose(X) ==
    [i \in 1..Len(X) |-> [t \in 1..Len(X[1][1]) |-> [k \in 1..Len(X[1]) |-> X[i][k][t]]]]

\* X.shape
ShapeOf(X) == <<Len(X), Len(X[1]), Len(X[1][1])>>

\* X.shape[1:]
InputShape(X) == Shape(SubSeq(ShapeOf(X), 2, 3))

\* copy.deepcopy of list object `ref`: a new list object with copies of its items
deepcopy(ls, ref) == [lists |-> Append(ls, ls[ref.id]), ref |-> Ref("list", Len(ls) + 1)]

\* bool(self.callbacks)
Truthy(ls, callbacks) == callbacks # None /\ ls[callbacks.id] # <<>>

\* a bug: the stored list itself is handed to the training procedure
CallbacksArg_shared(ls, callbacks) == [lists |-> ls, ref |-> callbacks]

\* deepcopy(self.callbacks) if self.callbacks else []
CallbacksArg(ls, callbacks) ==
    IF Truthy(ls, callbacks)
    THEN deepcopy(ls, callbacks)
    ELSE [lists |-> Append(ls, <<>>), ref |-> Ref("list", Len(ls) + 1)]

\* keras binds every callback it is handed to the model being trained
set_model(ls, ref, model) ==
    IF ref = None THEN ls
    ELSE [ls EXCEPT ![ref.id] = [c \in DOMAIN @ |-> [@[c] EXCEPT !.model = model]]]

\* what one call saw and did, as its caller and its collaborators observe it
NoCall == [op |-> "none", inst |-> 0, installed |-> TRUE, fail |-> "none",
           raised |-> NoError, X |-> None, y |-> None, build |-> NoBuild,
           fit_calls |-> 0, train |-> None, built |-> None, returned |-> None,
           summaries |-> 0]

\* a bug: an already stored model is trained further instead of a new one
_fit_keepsModel(self, heap, X, y, fail) ==
    LET Xt == Transpose(X)
        self1 == [self EXCEPT !.input_shape = InputShape(Xt)]
        seen == [NoCall EXCEPT !.op = "_fit", !.fail = fail, !.X = X, !.y = y]
        old == self1.model_ # Unset
        b == IF old
             THEN [self |-> self1, seed |-> heap.seed, raised |-> NoError,
                   model |-> heap.models[self1.model_.id], seen |-> NoBuild]
             ELSE build_model(self1, heap.seed, self1.input_shape, fail)
    IN  IF b.raised # NoError
        THEN [self |-> b.self, heap |-> [heap EXCEPT !.seed = b.seed],
              seen |-> [seen EXCEPT !.raised = b.raised, !.build = b.seen]]
        ELSE LET model_ == IF old THEN self1.model_ ELSE Ref("model", Len(heap.models) + 1)
                 self2 == [b.self EXCEPT !.model_ = model_]
                 built == IF old THEN heap.models ELSE Append(heap.models, b.model)
                 cb == CallbacksArg(heap.lists, self2.hp.callbacks)
                 train == [X |-> Xt, y |-> y, batch_size |-> self2.hp.batch_size,
                           epochs |-> self2.hp.n_epochs, verbose |-> self2.hp.verbose,
                           callbacks |-> cb.ref]
                 seen2 == [seen EXCEPT !.build = b.seen,
                                       !.built = IF old THEN None ELSE model_,
                                       !.summaries = IF self2.hp.verbose THEN 1 ELSE 0,
                                       !.fit_calls = 1, !.train = train]
                 bound == set_model(cb.lists, cb.ref, model_)
             IN  IF fail = "fit"
                 THEN [self |-> self2,
                       heap |-> [heap EXCEPT !.seed = b.seed, !.models = built,
                                             !.lists = bound],
                       seen |-> [seen2 EXCEPT !.raised = ErrorOf(fail)]]
                 ELSE LET history == Ref("history", Len(heap.histories) + 1)
                          trained == [built EXCEPT ![model_.id].epochs_trained =
                                                      @ + train.epochs]
                      IN  [self |-> [self2 EXCEPT !.history = history],
                           heap |-> [seed |-> b.seed, models |-> trained, lists |-> bound,
                                     histories |-> Append(heap.histories,
                                         [model |-> model_, epochs |-> train.epochs])],
                           seen |-> [seen2 EXCEPT !.returned = history]]

\* check_random_state(self.random_state) makes a generator that is dropped, and
\* model_.summary() prints: neither changes the state (summaries counts the prints).
\* _fit on `self` in the heap `heap` (models, histories, lists, seed): the object
\* and the heap as the call leaves them, and what the call saw and did
_fit(self, heap, X, y, fail) ==
    LET Xt == Transpose(X)
        self1 == [self EXCEPT !.input_shape = InputShape(Xt)]
        seen == [NoCall EXCEPT !.op = "_fit", !.fail = fail, !.X = X, !.y = y]
        b == build_model(self1, heap.seed, self1.input_shape, fail)
    IN  IF b.raised # NoError
        THEN [self |-> b.self, heap |-> [heap EXCEPT !.seed = b.seed],
              seen |-> [seen EXCEPT !.raised = b.raised, !.build = b.seen]]
        ELSE LET model_ == Ref("model", Len(heap.models) + 1)
                 self2 == [b.self EXCEPT !.model_ = model_]
                 built == Append(heap.models, b.model)
                 cb == CallbacksArg(heap.lists, self2.hp.callbacks)
                 train == [X |-> Xt, y |-> y, batch_size |-> self2.hp.batch_size,
                           epochs |-> self2.hp.n_epochs, verbose |-> self2.hp.verbose,
                           callbacks |-> cb.ref]
                 seen2 == [seen EXCEPT !.build = b.seen, !.built = model_,
                                       !.summaries = IF self2.hp.verbose THEN 1 ELSE 0,
                                       !.fit_calls = 1, !.train = train]
                 bound == set_model(cb.lists, cb.ref, model_)
             IN  IF fail = "fit"                       \* self.model_.fit raises
                 THEN [self |-> self2,
                       heap |-> [heap EXCEPT !.seed = b.seed, !.models = built,
                                             !.lists = bound],
                       seen |-> [seen2 EXCEPT !.raised = ErrorOf(fail)]]
                 ELSE LET history == Ref("history", Len(heap.histories) + 1)
                          trained == [built EXCEPT ![model_.id].epochs_trained =
                                                      @ + train.epochs]
                      IN  [self |-> [self2 EXCEPT !.history = history],
                           heap |-> [seed |-> b.seed, models |-> trained, lists |-> bound,
                                     histories |-> Append(heap.histories,
                                         [model |-> model_, epochs |-> train.epochs])],
                           seen |-> [seen2 EXCEPT !.returned = history]]

(* ---------------- the program ---------------- *)

Heap == [models |-> models, histories |-> histories, lists |-> lists, seed |-> globalSeed]

Freed == [tag |-> "freed"]     \* the slot of an object nothing refers to any more
                               \* (a released list leaves an empty slot)

Stored(v) == v # Unset /\ v # None

\* the ids of the references among `refs` that point into the heap of `kind`
Ids(refs, kind) == {r.id : r \in {q \in refs : q.tag = "ref" /\ q.kind = kind}}

\* Rebinding an attribute releases the object it named. An object stays while an
\* adapter, the last call's caller, a kept history or a kept callback refers to it.
Collect(a, h, c) ==
    LET held == {a[i].model_ : i \in Inst} \cup {a[i].history : i \in Inst}
                    \cup {c.built, c.returned}
        liveL == Ids({a[i].hp.callbacks : i \in {j \in Inst : a[j].hp # Unset}}
                         \cup (IF c.train = None THEN {} ELSE {c.train.callbacks}), "list")
        liveH == Ids(held, "history")
        liveM == Ids(held \cup {h.histories[k].model : k \in liveH}
                          \cup UNION {{h.lists[l][n].model : n \in DOMAIN h.lists[l]} :
                                         l \in liveL}, "model")
    IN  [h EXCEPT !.models = [k \in DOMAIN @ |-> IF k \in liveM THEN @[k] ELSE Freed],
                  !.histories = [k \in DOMAIN @ |-> IF k \in liveH THEN @[k] ELSE Freed],
                  !.lists = [k \in DOMAIN @ |-> IF k \in liveL THEN @[k] ELSE <<>>]]

\* the state a call leaves
Commit(a, h, c) ==
    LET kept == Collect(a, h, c)
    IN  /\ adapter' = a
        /\ models' = kept.models
        /\ histories' = kept.histories
        /\ lists' = kept.lists
        /\ globalSeed' = kept.seed
        /\ call' = c

Init ==
    /\ adapter = [i \in Inst |-> Blank]
    /\ models = <<>>
    /\ histories = <<>>
    /\ lists = <<>>
    /\ globalSeed = None
    /\ call = NoCall

\* the callbacks argument the caller makes: None, [] or [a callback]
UserCallbacks(kind) ==
    CASE kind = "none" -> [lists |-> lists, ref |-> None]
      [] kind = "empty" -> [lists |-> Append(lists, <<>>), ref |-> Ref("list", Len(lists) + 1)]
      [] OTHER -> [lists |-> Append(lists, <<[model |-> None]>>),
                   ref |-> Ref("list", Len(lists) + 1)]

\* CNNRegressor(...) for the object in slot i
Construct(i, ne, kind, vb, mt, rs, op, installed) ==
    /\ adapter[i].hp = Unset
    /\ LET cb == UserCallbacks(kind)
           r == __init__(adapter[i], Params(ne, cb.ref, vb, mt, rs, op), installed)
       IN  Commit([adapter EXCEPT ![i] = r.self],
                  [Heap EXCEPT !.lists = IF r.raised = NoError THEN cb.lists ELSE @],
                  [NoCall EXCEPT !.op = "__init__", !.inst = i,
                                 !.installed = installed, !.raised = r.raised])

\* a bug: the fitted attributes are stored on the class, shared by all instances
Fit_onClass(i, X, y, fail) ==
    /\ adapter[i].hp # Unset
    /\ Len(models) < MaxModels
    /\ LET r == _fit(adapter[i], Heap, X, y, fail)
       IN  Commit([j \in Inst |->
                      IF j = i THEN r.self
                      ELSE IF adapter[j].hp = Unset THEN adapter[j]
                      ELSE [adapter[j] EXCEPT !.model_ = r.self.model_,
                                              !.history = r.self.history]],
                  r.heap, [r.seen EXCEPT !.inst = i])

\* adapter i's _fit(X, y)
Fit(i, X, y, fail) ==
    /\ adapter[i].hp # Unset
    /\ Len(models) < MaxModels
    /\ LET r == _fit(adapter[i], Heap, X, y, fail)
       IN  Commit([adapter EXCEPT ![i] = r.self], r.heap, [r.seen EXCEPT !.inst = i])

\* adapter i's build_model(input_shape), called by the user
BuildModel(i, input_shape, fail) ==
    /\ adapter[i].hp # Unset
    /\ Len(models) < MaxModels
    /\ LET r == build_model(adapter[i], globalSeed, input_shape, fail)
           ok == r.raised = NoError
           built == IF ok THEN Ref("model", Len(models) + 1) ELSE None
       IN  Commit([adapter EXCEPT ![i] = r.self],
                  [Heap EXCEPT !.seed = r.seed,
                               !.models = IF ok THEN Append(@, r.model) ELSE @],
                  [NoCall EXCEPT !.op = "build_model", !.inst = i, !.fail = fail,
                                 !.raised = r.raised, !.build = r.seen,
                                 !.built = built, !.returned = built])

\* the calls a user can make, over adapters I, constructor arguments Cf and
\* input shapes Sh
NextWith(I, Cf, Sh) ==
    \/ \E i \in I, c \in Cf, installed \in BOOLEAN :
          Construct(i, c[1], c[2], c[3], c[4], c[5], c[6], installed)
    \/ \E i \in I, s \in Sh, fail \in FailPoints :
          Fit(i, MkX(s[1], s[2], s[3]), MkY(s[1]), fail)
    \/ \E i \in I, s \in Sh, fail \in FailPoints \ {"fit"} :
          BuildModel(i, Shape(<<s[3], s[2]>>), fail)

\* one adapter, every combination of constructor arguments, one input shape
Next == NextWith({1}, Configs, {OneShape})

Spec == Init /\ [][Next]_vars

\* one adapter with nothing optional configured, fitted on every input shape
NextShapes ==
    \/ \E installed \in BOOLEAN :
          Construct(1, PlainConfig[1], PlainConfig[2], PlainConfig[3],
                    PlainConfig[4], PlainConfig[5], PlainConfig[6], installed)
    \/ \E s \in Shapes, fail \in FailPoints :
          Fit(1, MkX(s[1], s[2], s[3]), MkY(s[1]), fail)

SpecShapes == Init /\ [][NextShapes]_vars

\* two adapters that differ in seed and epochs, one input shape
NextTwo == NextWith(Inst, SeedEpochConfigs, {OneShape})

SpecTwo == Init /\ [][NextTwo]_vars

(* ---------------- properties ---------------- *)

\* the adapter the last call was made on
Callee == adapter[call.inst]

FitReturned == call.op = "_fit" /\ call.raised = NoError

\* C1: after every successful fit call the stored model is the model built
\* during that call, a model no earlier call built, and the stored history is
\* the record that call's training run returned: it is the history of the stored
\* model and covers n_epochs epochs, which is all the stored model was trained.
C1_RefitReplaces ==
    FitReturned =>
        /\ call.built # None
        /\ Callee.model_ = call.built
        /\ Callee.model_.id = Len(models)
        /\ Callee.history = call.returned
        /\ Callee.history.id = Len(histories)
        /\ histories[Callee.history.id] =
               [model |-> Callee.model_, epochs |-> Callee.hp.n_epochs]
        /\ models[Callee.model_.id].epochs_trained = Callee.hp.n_epochs

\* a second successful fit of an adapter, with n_epochs = 2
C1_Witness ==
    /\ FitReturned
    /\ Len(histories) = 2
    /\ Callee.hp.n_epochs = 2
    /\ Callee.model_ = Ref("model", 2)

\* what a step that is a fit call does to the callbacks
C2_FitStep ==
    call'.op = "_fit" =>
        LET stored == adapter[call'.inst].hp.callbacks
        IN  /\ adapter'[call'.inst].hp.callbacks = stored
            /\ stored # None => lists'[stored.id] = lists[stored.id]
            /\ call'.train # None => call'.train.callbacks # stored

\* C2: in every fit call, whatever callbacks are configured (None, [] or a
\* non-empty list), the list handed to the training procedure is another object
\* than the stored one, and the call leaves the stored callbacks attribute the
\* same object with the same content.
C2_CallbacksCopied == [][C2_FitStep]_vars

\* a fit with a non-empty stored list: training bound the copy it was handed to
\* the model, and the stored list's callback is still unbound
C2_Witness ==
    /\ FitReturned
    /\ Callee.hp.callbacks # None
    /\ lists[Callee.hp.callbacks.id] = <<[model |-> None]>>
    /\ call.train.callbacks # Callee.hp.callbacks
    /\ lists[call.train.callbacks.id] = <<[model |-> Callee.model_]>>

\* C3: constructing without the framework installed ends in the dependency
\* error, with no hyperparameter stored and no network-builder constructed.
C3_DependencyFirst ==
    (call.op = "__init__" /\ ~call.installed) =>
        /\ call.raised = "DependencyError"
        /\ Callee.hp = Unset
        /\ Callee.network = Unset
        /\ Callee = Blank

C3_Witness ==
    /\ call.op = "__init__"
    /\ ~call.installed
    /\ call.raised # NoError
    /\ Callee.hp = Unset

\* C4: a fit call in which the network-builder, the compilation or the training
\* fails ends with that very error, and no fit call invokes the network-builder,
\* the compilation or the training more than once.
C4_FailuresPropagate ==
    call.op = "_fit" =>
        /\ call.raised = ErrorOf(call.fail)
        /\ call.build.network_calls <= 1
        /\ call.build.compile_calls <= 1
        /\ call.fit_calls <= 1
        /\ call.fail = "build_network" => call.build.compile_calls = 0 /\ call.fit_calls = 0
        /\ call.fail = "compile" => call.fit_calls = 0

\* a fit whose network-builder failed, after an earlier successful fit
C4_Witness ==
    /\ call.op = "_fit"
    /\ call.fail = "build_network"
    /\ call.raised = "BuilderError"
    /\ call.build.network_calls = 1
    /\ Callee.history # None

\* C5: whenever build_model compiles, the optimizer is Adam with learning rate
\* 0.01 if none is configured and the configured optimizer otherwise, the metrics
\* are ["accuracy"] if none are configured and the configured metrics otherwise
\* (an empty list included), and the loss is the configured loss.
C5_DefaultsResolved ==
    call.build.compiled # None =>
        LET hp == Callee.hp
            c == call.build.compiled
        IN  /\ hp.optimizer = None =>
                   c.optimizer = [tag |-> "optimizer", class |-> "Adam",
                                  learning_rate |-> <<1, 100>>]
            /\ hp.optimizer # None => c.optimizer = hp.optimizer
            /\ hp.metrics = None => c.metrics = List(<<"accuracy">>)
            /\ hp.metrics # None => c.metrics = hp.metrics
            /\ c.loss = hp.loss
            /\ Callee.optimizer_ = c.optimizer

\* a build with an empty metrics list and a configured optimizer
C5_Witness ==
    /\ call.build.compiled # None
    /\ Callee.hp.metrics = List(<<>>)
    /\ call.build.compiled.metrics = List(<<>>)
    /\ Callee.hp.optimizer # None

\* C6: a fit call on X of shape (n, d, m) records input_shape = (m, d), calls
\* build_model with that shape, and hands the training procedure y and the array
\* of shape (n, m, d) with entry [i][t][k] = X[i][k][t].
C6_Transposed ==
    call.op = "_fit" =>
        LET X == call.X
            n == Len(X)
            d == Len(X[1])
            m == Len(X[1][1])
        IN  /\ Callee.input_shape = Shape(<<m, d>>)
            /\ call.build.shape = Shape(<<m, d>>)
            /\ call.train # None =>
                   /\ call.train.y = call.y
                   /\ Len(call.train.X) = n
                   /\ \A i \in 1..n :
                          /\ Len(call.train.X[i]) = m
                          /\ \A t \in 1..m :
                                 /\ Len(call.train.X[i][t]) = d
                                 /\ \A k \in 1..d : call.train.X[i][t][k] = X[i][k][t]

\* a successful fit on X of shape (2, 1, 2)
C6_Witness ==
    /\ FitReturned
    /\ ShapeOf(call.X) = <<2, 1, 2>>
    /\ call.train.X[2][2][1] = 212
    /\ Callee.input_shape = Shape(<<2, 1>>)

\* what a step leaves of the constructed adapters
C7_Step ==
    \A i \in Inst :
        adapter[i].hp # Unset =>
            /\ adapter'[i].hp = adapter[i].hp
            /\ adapter'[i].network = adapter[i].network

\* C7: no call changes a constructed adapter's hyperparameters or its
\* network-builder: fit and build_model write input_shape, model_, history and
\* optimizer_ only.
C7_HyperparametersKept == [][C7_Step]_vars

\* an adapter with unset optimizer and metrics after a fit and a build_model
C7_Witness ==
    /\ call.op = "build_model"
    /\ call.raised = NoError
    /\ Callee.hp.optimizer = None
    /\ Callee.hp.metrics = None
    /\ Callee.optimizer_ # Unset
    /\ Callee.history # None

\* no two adapters store the same model or the same history
Exclusive ==
    \A i, j \in Inst :
        i # j =>
            /\ Stored(adapter[i].model_) => adapter[i].model_ # adapter[j].model_
            /\ Stored(adapter[i].history) => adapter[i].history # adapter[j].history

\* the model and the history stored on adapter j, as objects and in content
Owned(j, a, ms, hs) ==
    [model_ |-> a[j].model_, history |-> a[j].history,
     model |-> IF Stored(a[j].model_) THEN ms[a[j].model_.id] ELSE None,
     record |-> IF Stored(a[j].history) THEN hs[a[j].history.id] ELSE None]

\* what a step leaves of the adapters it is not called on
C8_Step ==
    /\ Exclusive'
    /\ call'.op = "_fit" =>
           \A j \in Inst \ {call'.inst} :
               Owned(j, adapter', models', histories') = Owned(j, adapter, models, histories)

\* C8: two adapters never store the same model object or the same history
\* object, and a fit call on one leaves the model and the history stored on the
\* other as they were.
C8_NoSharing == [][C8_Step]_vars

\* both adapters fitted, the second after the first
C8_Witness ==
    /\ FitReturned
    /\ call.inst = 2
    /\ Stored(adapter[1].history)
    /\ Stored(adapter[2].history)
    /\ adapter[1].model_ # adapter[2].model_

\* C9: whenever build_model invokes the network-builder, the global seed in
\* effect is the calling adapter's random_state, and it still is when the call
\* ends.
C9_SeedBeforeBuild ==
    call.build.network_calls > 0 =>
        /\ call.build.seed_at_network = Seed(Callee.hp.random_state)
        /\ globalSeed = Seed(Callee.hp.random_state)
        /\ call.built # None => models[call.built.id].built_with_seed = globalSeed

\* adapter 2 builds after adapter 1 has, with another seed
C9_Witness ==
    /\ call.op = "build_model"
    /\ call.inst = 2
    /\ call.raised = NoError
    /\ Stored(adapter[1].model_)
    /\ adapter[1].hp.random_state # adapter[2].hp.random_state
    /\ models[adapter[1].model_.id].built_with_seed # globalSeed

\* C10: whenever an adapter stores a model and a history, the history is the
\* record of training that model.
C10_ModelHistoryAgree ==
    \A i \in Inst :
        (Stored(adapter[i].model_) /\ Stored(adapter[i].history)) =>
            histories[adapter[i].history.id].model = adapter[i].model_

====
